---- MODULE Spec2Model ----
(***************************************************************************)
(* Model of unifrac/longitudinal.py: EMD UniFrac over a rooted tree, the   *)
(* hotspot selection built on it, and the two public entry points          *)
(* hotspot_pairs and hotspot.                                              *)
(*                                                                         *)
(* Conventions of the model                                                *)
(*  - A tree is a record [n, parent, length].  Nodes are 0 .. n-1 in the   *)
(*    order skbio's assign_ids gives them (postorder), so the root is n-1, *)
(*    every parent id is larger than its children's ids and a subtree is a *)
(*    contiguous range of ids.  A node's name is its id.                   *)
(*  - Real numbers are exact rationals.  A normalized vector is a record   *)
(*    [num, den]: entry i is num[i] / den.  den = 0 stands for the vector  *)
(*    numpy produces when it divides by zero (every entry nan, or inf and  *)
(*    nan for unweighted): every difference of such entries is nan.        *)
(*  - Branch lengths and counts are non-negative integers.                 *)
(***************************************************************************)
EXTENDS Integers, Sequences, FiniteSets, TLC

VARIABLES
    pc,                  \* position of the running call
    entry,               \* the function the caller invoked
    tree_arg,            \* type of the tree argument: "TreeNode", "str", other
    table_arg,           \* type of the table argument: "Table", "str", other
    metric,              \* the metric argument
    pairs,               \* hotspot_pairs: the list of sample pairs
    tree,                \* the tree in use (NoTree before it is read)
    table,               \* hotspot_pairs: the loaded table
    idx,                 \* hotspot_pairs: index of the pair being processed
    otu_ids,             \* hotspot: names aligned with the count vectors
    u_counts, v_counts,  \* hotspot: the raw count vectors
    sample_1, sample_2,  \* the vectors handed to _emd_unifrac_single_pair
    ids,                 \* node ids aligned with sample_1 / sample_2
    emd,                 \* result of _emd_unifrac_single_pair
    max_change_node_id,  \* result of the selection loop
    profile,             \* result of _profile_tree_node
    all_results,         \* hotspot_pairs: results so far, in insertion order
    error,               \* the exception that ended the call, if any
    steps                \* tree traversals begun so far, in order

vars == <<pc, entry, tree_arg, table_arg, metric, pairs, tree, table, idx,
          otu_ids, u_counts, v_counts, sample_1, sample_2, ids, emd,
          max_change_node_id, profile, all_results, error, steps>>

(***************************************************************************)
(* Bounds of the model.                                                    *)
(***************************************************************************)
MaxNodes == 5     \* trees have 2 .. MaxNodes nodes
MaxLen == 1       \* branch lengths are 0 .. MaxLen
MaxTotal == 2     \* the counts of one sample sum to at most MaxTotal
MaxPairs == 1     \* hotspot_pairs is given at most MaxPairs pairs

(***************************************************************************)
(* Arithmetic helpers.                                                     *)
(***************************************************************************)
abs(x) == IF x < 0 THEN -x ELSE x

RECURSIVE SeqSum(_)
SeqSum(s) == IF s = <<>> THEN 0 ELSE s[1] + SeqSum(Tail(s))

RECURSIVE SetSum(_, _)
SetSum(f, S) ==
    IF S = {} THEN 0
    ELSE LET x == CHOOSE y \in S : TRUE IN f[x] + SetSum(f, S \ {x})

\* All sequences of length k over 0 .. m whose entries sum to at most m.
RECURSIVE Vectors(_, _)
Vectors(k, m) ==
    IF k = 0 THEN {<<>>}
    ELSE UNION {{<<x>> \o v : v \in Vectors(k - 1, m - x)} : x \in 0 .. m}

(***************************************************************************)
(* Trees (skbio.TreeNode after assign_ids).                                *)
(***************************************************************************)
NoTree == [n |-> 0, parent |-> <<>>, length |-> <<>>]
NoParent == -1

Root(t) == t.n - 1
NonRoot(t) == 0 .. (t.n - 2)
Nodes(t) == 0 .. (t.n - 1)
Children(t, p) == {c \in NonRoot(t) : t.parent[c] = p}
IsTip(t, i) == Children(t, i) = {}
TipSet(t) == {i \in Nodes(t) : IsTip(t, i)}

\* Postorder numberings: the parent comes after the child, and every node
\* between a child and its parent lies in the parent's subtree.
IsPostorder(n, p) ==
    /\ \A i \in 0 .. (n - 2) : p[i] > i
    /\ \A i \in 0 .. (n - 2) : \A j \in 0 .. (n - 2) :
          (i < j /\ j < p[i]) => p[j] <= p[i]

Parents(n) ==
    {[i \in 0 .. (n - 1) |-> IF i = n - 1 THEN NoParent ELSE p[i]] :
        p \in {q \in [0 .. (n - 2) -> 1 .. (n - 1)] : IsPostorder(n, q)}}

Lengths(n) ==
    {[i \in 0 .. (n - 1) |-> IF i = n - 1 THEN 0 ELSE l[i]] :
        l \in [0 .. (n - 2) -> 0 .. MaxLen]}

TreesOfSize(n) ==
    {[n |-> n, parent |-> p, length |-> l] : p \in Parents(n), l \in Lengths(n)}

AllTrees == UNION {TreesOfSize(n) : n \in 2 .. MaxNodes}

\* j lies in the subtree rooted at n (n included).
RECURSIVE InSubtree(_, _, _)
InSubtree(t, j, n) ==
    IF j = n THEN TRUE
    ELSE IF j > n \/ j = Root(t) THEN FALSE
    ELSE InSubtree(t, t.parent[j], n)

\* tree.postorder(include_self=False): every node but the root, children first.
postorder(t) == [k \in 1 .. (t.n - 1) |-> k - 1]

\* tree.descending_branch_length() called on the root.
descending_branch_length(t) == SetSum(t.length, NonRoot(t))

\* [tree.find(name).id for name in otu_ids]
find_ids(t, names) == [k \in 1 .. Len(names) |-> names[k]]

(***************************************************************************)
(* Exceptions.  value is the offending value the message is formatted      *)
(* with ("" when the message has none).                                    *)
(***************************************************************************)
NoError == [exc |-> "None", msg |-> "", value |-> ""]
Raise(exc, msg, value) == [exc |-> exc, msg |-> msg, value |-> value]

(***************************************************************************)
(* _weight_adjuster                                                        *)
(***************************************************************************)
NaN == 0   \* the denominator that marks a vector of nan / inf entries

\* (sample > 0).astype(float)
presence(sample) == [k \in 1 .. Len(sample) |-> IF sample[k] > 0 THEN 1 ELSE 0]

_weight_adjuster(s1, s2, t, method) ==
    IF method = "unweighted_unifrac" THEN
        IF t = NoTree THEN
            [error |-> Raise("ValueError",
                             "Unweighted weight adjustment requires a tree.", ""),
             sample_1 |-> <<>>, sample_2 |-> <<>>,
             traversed |-> <<>>]
        ELSE
            LET total_branch_length == descending_branch_length(t) IN
            [error |-> NoError,
             sample_1 |-> [num |-> presence(s1), den |-> total_branch_length],
             sample_2 |-> [num |-> presence(s2), den |-> total_branch_length],
             traversed |-> <<"descending_branch_length">>]
    ELSE IF method = "weighted_unifrac" THEN
        [error |-> NoError,
         sample_1 |-> [num |-> s1, den |-> SeqSum(s1)],
         sample_2 |-> [num |-> s2, den |-> SeqSum(s2)],
         traversed |-> <<>>]
    ELSE
        [error |-> Raise("ValueError", "method not recognized", method),
         sample_1 |-> <<>>, sample_2 |-> <<>>,
         traversed |-> <<>>]

(***************************************************************************)
(* _emd_unifrac_single_pair                                                *)
(***************************************************************************)
\* sample_1_weights - sample_2_weights, over the common denominator.  When
\* either vector is nan the difference is nan in every entry: the numerator
\* 1 then only marks "not equal to zero".
partial_sum_array(s1, s2) ==
    IF s1.den = NaN \/ s2.den = NaN
    THEN [num |-> [k \in 1 .. Len(s1.num) |-> 1], den |-> NaN]
    ELSE [num |-> [k \in 1 .. Len(s1.num) |->
                      s1.num[k] * s2.den - s2.num[k] * s1.den],
          den |-> s1.den * s2.den]

\* dict(zip(ids, partial_sum_array)): a later duplicate key overwrites.
dict_zip(keys, values) ==
    [i \in {keys[k] : k \in 1 .. Len(keys)} |->
        LET last == CHOOSE k \in 1 .. Len(keys) :
                        /\ keys[k] = i
                        /\ \A m \in 1 .. Len(keys) : keys[m] = i => m <= k
        IN values[last]]

dict_get(d, key, default) == IF key \in DOMAIN d THEN d[key] ELSE default
dict_del(d, key) == [k \in (DOMAIN d) \ {key} |-> d[k]]
dict_set(d, key, value) ==
    [k \in (DOMAIN d) \cup {key} |-> IF k = key THEN value ELSE d[k]]

\* The term one node adds to distance (line 238).
distance_term_signed(length, val) == length * val
distance_term(length, val) == length * abs(val)

\* The value recorded for a node with val != 0 (line 237).
edge_contribution_unsigned(length, val) == length * abs(val)
edge_contribution(length, val) == length * val

\* The value parent_val takes before it is stored (lines 232-233).
add_to_parent_overwrite(parent_val, val) == val
add_to_parent(parent_val, val) == parent_val + val

\* The test that guards the recording of a node (line 235).
always_recorded(val) == TRUE
is_nonzero(val) == val # 0

\* One iteration of the loop over tree.postorder(include_self=False).
emd_iteration(t, st, node_id) ==
    LET val == dict_get(st.partial_sums, node_id, 0)
        popped == dict_del(st.partial_sums, node_id)
        parent_id == t.parent[node_id]
        parent_val == add_to_parent(dict_get(popped, parent_id, 0), val)
    IN [partial_sums |-> dict_set(popped, parent_id, parent_val),
        differential_abundance |->
            IF is_nonzero(val)
            THEN Append(st.differential_abundance,
                        <<node_id, edge_contribution(t.length[node_id], val)>>)
            ELSE st.differential_abundance,
        distance |-> st.distance + distance_term(t.length[node_id], val)]

RECURSIVE emd_loop(_, _, _, _)
emd_loop(t, order, k, st) ==
    IF k > Len(order) THEN st
    ELSE emd_loop(t, order, k + 1, emd_iteration(t, st, order[k]))

\* distance and the values of differential_abundance are numerators over
\* den; differential_abundance is a sequence of <<id, value>> in insertion
\* order.  With den = NaN every value of differential_abundance is nan, and
\* distance is nan when differential_abundance is not empty.
_emd_unifrac_single_pair(t, node_ids, s1, s2) ==
    LET d == partial_sum_array(s1, s2)
        st == emd_loop(t, postorder(t), 1,
                       [partial_sums |-> dict_zip(node_ids, d.num),
                        differential_abundance |-> <<>>,
                        distance |-> 0])
    IN [distance |-> st.distance,
        differential_abundance |-> st.differential_abundance,
        partial_sums |-> st.partial_sums,
        den |-> d.den]

(***************************************************************************)
(* The selection loop of _calculate_hotspot                                *)
(***************************************************************************)
Unbound == -1   \* max_change_node_id before its first assignment

\* abs_diff_abund > max_abs_diff_abund.  Both are numerators over den > 0
\* (the initial -1 is below every one of them); a nan compares False.
exceeds_or_equals(abs_diff_abund, max_abs_diff_abund, den) ==
    den # NaN /\ abs_diff_abund >= max_abs_diff_abund
exceeds(abs_diff_abund, max_abs_diff_abund, den) ==
    den # NaN /\ abs_diff_abund > max_abs_diff_abund

RECURSIVE select_loop(_, _, _, _)
select_loop(items, den, k, st) ==
    IF k > Len(items) THEN st
    ELSE LET abs_diff_abund == abs(items[k][2]) IN
         select_loop(items, den, k + 1,
            IF exceeds(abs_diff_abund, st.max_abs_diff_abund, den)
            THEN [max_abs_diff_abund |-> abs_diff_abund,
                  max_change_node_id |-> items[k][1]]
            ELSE st)

select_hotspot(differential_abundances, den) ==
    select_loop(differential_abundances, den, 1,
                [max_abs_diff_abund |-> -1,
                 max_change_node_id |-> Unbound]).max_change_node_id

(***************************************************************************)
(* _profile_tree_node                                                      *)
(***************************************************************************)
\* node.distance(node.root()): the branch lengths from node up to the root.
RECURSIVE distance_to_root(_, _)
distance_to_root(t, node) ==
    IF node = Root(t) THEN 0
    ELSE t.length[node] + distance_to_root(t, t.parent[node])

\* Path length between two tips a and b of the tree.
tip_distance(t, a, b) ==
    SetSum([x \in NonRoot(t) |->
               IF InSubtree(t, a, x) # InSubtree(t, b, x)
               THEN t.length[x] ELSE 0],
           NonRoot(t))

\* node.get_max_distance(): the largest tip-to-tip distance below node and
\* a pair of tips at that distance (the first such pair by id).
get_max_distance(t, node) ==
    LET below == {i \in TipSet(t) : InSubtree(t, i, node)}
        tip_pairs == {pr \in below \X below : pr[1] <= pr[2]}
        best == CHOOSE pr \in tip_pairs :
                    \A o \in tip_pairs :
                        \/ tip_distance(t, o[1], o[2]) < tip_distance(t, pr[1], pr[2])
                        \/ /\ tip_distance(t, o[1], o[2]) = tip_distance(t, pr[1], pr[2])
                           /\ (pr[1] < o[1] \/ (pr[1] = o[1] /\ pr[2] <= o[2]))
    IN <<tip_distance(t, best[1], best[2]), best>>

_profile_tree_node_of_root(t, node) ==
    LET gmd == get_max_distance(t, Root(t)) IN
    [distance_to_root |-> 0,
     clade_width |-> gmd[1],
     maximally_divergent_tips |-> gmd[2],
     node_address |-> Root(t)]
_profile_tree_node(t, node) ==
    LET gmd == get_max_distance(t, node) IN
    [distance_to_root |-> distance_to_root(t, node),
     clade_width |-> gmd[1],
     maximally_divergent_tips |-> gmd[2],
     node_address |-> node]

(***************************************************************************)
(* Inputs.                                                                 *)
(***************************************************************************)
available_metrics_with_aliases ==
    {"weighted_unifrac", "unweighted_unifrac", "weighted", "unweighted"}
available_metrics == {"weighted_unifrac", "unweighted_unifrac"}

Metrics == {"weighted_unifrac", "unweighted_unifrac",
            "weighted", "unweighted", "not-a-real-metric"}
TreeArgs == {"TreeNode", "str", "list"}
TableArgs == {"Table", "str", "list"}
Entries == {"hotspot_pairs", "hotspot", "_emd_unifrac_single_pair"}

\* The elements of a set of ids as a sequence, in increasing order.
RECURSIVE Sorted(_)
Sorted(S) ==
    IF S = {} THEN <<>>
    ELSE LET m == CHOOSE x \in S : \A y \in S : x <= y
         IN <<m>> \o Sorted(S \ {m})

\* Name lists aligned with the count vectors: the tips of the tree, or the
\* tips and one node that is not a tip.
NameLists(t) ==
    {Sorted(TipSet(t))} \cup
    {Sorted(TipSet(t)) \o <<x>> : x \in Nodes(t) \ TipSet(t)}

\* The count vectors hotspot_pairs and hotspot are given for a name list:
\* a name that is not a tip has count 0 in both samples.
Counts(t, names) ==
    LET tips == Cardinality(TipSet(t)) IN
    {v \o [k \in 1 .. (Len(names) - tips) |-> 0] : v \in Vectors(tips, MaxTotal)}

\* The trees handed to hotspot_pairs and hotspot: no node has a single
\* child.  With that and every tip named in otu_ids, tree.shear(otu_ids)
\* returns a copy equal to the tree (it removes no tip and collapses no
\* node), and assign_ids gives the copy the same ids.
HotspotTrees ==
    {t \in AllTrees : \A i \in Nodes(t) : Cardinality(Children(t, i)) # 1}

\* pairs: at most MaxPairs pairs over the samples "A" and "B", alternating.
PairLists ==
    {[k \in 1 .. m |-> IF k % 2 = 1 THEN <<"A", "B">> ELSE <<"B", "A">>] :
        m \in 0 .. MaxPairs}

NoTable == [observation |-> <<>>, A |-> <<>>, B |-> <<>>]
NoVector == [num |-> <<>>, den |-> 1]
NoEmd == [distance |-> 0, differential_abundance |-> <<>>,
          partial_sums |-> <<>>, den |-> 1]
NoProfile == [node_address |-> Unbound]

Init ==
    /\ pc = "start"
    /\ entry \in Entries
    /\ metric \in (IF entry = "_emd_unifrac_single_pair"
                   THEN {"weighted_unifrac"} ELSE Metrics)
    /\ tree_arg \in (IF entry = "_emd_unifrac_single_pair"
                     THEN {"TreeNode"} ELSE TreeArgs)
    /\ table_arg \in (IF entry = "hotspot_pairs" THEN TableArgs ELSE {"Table"})
    /\ pairs \in (IF entry = "hotspot_pairs" THEN PairLists ELSE {<<>>})
    /\ tree = NoTree
    /\ table = NoTable
    /\ idx = 1
    /\ otu_ids = <<>>
    /\ u_counts = <<>>
    /\ v_counts = <<>>
    /\ sample_1 = NoVector
    /\ sample_2 = NoVector
    /\ ids = <<>>
    /\ emd = NoEmd
    /\ max_change_node_id = Unbound
    /\ profile = NoProfile
    /\ all_results = <<>>
    /\ error = NoError
    /\ steps = <<>>

args == <<entry, metric, pairs>>
calc == <<sample_1, sample_2, ids, emd, max_change_node_id, profile>>

(***************************************************************************)
(* hotspot, lines 126-130: the type check and tree.shear(otu_ids).         *)
(***************************************************************************)
\* tree.shear raises MissingNodeError unless every name is a tip of the
\* tree; it checks the names before it removes anything.
shear_accepts(t, names) ==
    \A k \in 1 .. Len(names) : names[k] \in TipSet(t)

\* The call hotspot(u, v, names, t, metric) up to the call of
\* _calculate_hotspot, t being a TreeNode.
hotspot_shear(t, names, u, v) ==
    /\ otu_ids' = names
    /\ IF shear_accepts(t, names)
       THEN /\ steps' = Append(steps, "shear")
            /\ u_counts' = u
            /\ v_counts' = v
            /\ pc' = "_calculate_hotspot"
            /\ error' = error
       ELSE /\ UNCHANGED <<u_counts, v_counts, steps>>
            /\ pc' = "raised"
            /\ error' = Raise("MissingNodeError",
                              "Node list contains names not found in the tree", "")

\* hotspot called by the user.
hotspot ==
    /\ pc = "start"
    /\ entry = "hotspot"
    /\ IF tree_arg \notin {"str", "TreeNode"}
       THEN /\ pc' = "raised"
            /\ error' = Raise("ValueError", "Unsupported type for tree", tree_arg)
            /\ UNCHANGED <<tree_arg, tree, otu_ids, u_counts, v_counts, steps>>
       ELSE \E t \in HotspotTrees : \E names \in NameLists(t) :
            \E u \in Counts(t, names) : \E v \in Counts(t, names) :
                /\ tree_arg' = "TreeNode"
                /\ tree' = t
                /\ hotspot_shear(t, names, u, v)
    /\ UNCHANGED <<args, table_arg, table, idx, calc, all_results>>

(***************************************************************************)
(* hotspot_pairs                                                           *)
(***************************************************************************)
\* Lines 49-71: the checks, assign_ids and the observation names.
hotspot_pairs ==
    /\ pc = "start"
    /\ entry = "hotspot_pairs"
    /\ IF tree_arg \notin {"str", "TreeNode"}
       THEN /\ pc' = "raised"
            /\ error' = Raise("ValueError", "Unsupported type for tree", tree_arg)
            /\ UNCHANGED <<tree_arg, table_arg, tree, table, steps>>
       ELSE IF table_arg \notin {"str", "Table"}
       THEN /\ pc' = "raised"
            /\ error' = Raise("ValueError", "Unsupported type for table", table_arg)
            /\ tree_arg' = "TreeNode"
            /\ UNCHANGED <<table_arg, tree, table, steps>>
       ELSE IF metric \notin available_metrics
       THEN /\ pc' = "raised"
            /\ error' = Raise("ValueError", "Unsupported metric", metric)
            /\ tree_arg' = "TreeNode"
            /\ table_arg' = "Table"
            /\ UNCHANGED <<tree, table, steps>>
       ELSE \E t \in HotspotTrees : \E names \in NameLists(t) :
            \E u \in Counts(t, names) : \E v \in Counts(t, names) :
                /\ tree_arg' = "TreeNode"
                /\ table_arg' = "Table"
                /\ tree' = t
                /\ table' = [observation |-> names, A |-> u, B |-> v]
                /\ steps' = Append(steps, "assign_ids")
                /\ pc' = "pairs_loop"
                /\ error' = error
    /\ UNCHANGED <<args, idx, otu_ids, u_counts, v_counts, calc, all_results>>

\* Lines 72-80: the next pair's call of hotspot, or the return.
pairs_loop ==
    /\ pc = "pairs_loop"
    /\ IF idx > Len(pairs)
       THEN /\ pc' = "returned"
            /\ UNCHANGED <<otu_ids, u_counts, v_counts, error, steps>>
       ELSE hotspot_shear(tree, table.observation,
                          table[pairs[idx][1]], table[pairs[idx][2]])
    /\ UNCHANGED <<args, tree_arg, table_arg, tree, table, idx, calc, all_results>>

(***************************************************************************)
(* _calculate_hotspot                                                      *)
(***************************************************************************)
\* Lines 146-149: the call of _weight_adjuster.
calculate_hotspot_adjust ==
    /\ pc = "_calculate_hotspot"
    /\ LET r == _weight_adjuster(u_counts, v_counts, tree, metric) IN
       /\ steps' = steps \o r.traversed
       /\ IF r.error # NoError
          THEN /\ pc' = "raised"
               /\ error' = r.error
               /\ UNCHANGED <<sample_1, sample_2>>
          ELSE /\ pc' = "emd"
               /\ error' = error
               /\ sample_1' = r.sample_1
               /\ sample_2' = r.sample_2
    /\ UNCHANGED <<args, tree_arg, table_arg, tree, table, idx, otu_ids,
                   u_counts, v_counts, ids, emd, max_change_node_id, profile,
                   all_results>>

\* Lines 153-160: assign_ids, the ids of the names, _emd_unifrac_single_pair.
calculate_hotspot_emd ==
    /\ pc = "emd"
    /\ ids' = find_ids(tree, otu_ids)
    /\ emd' = _emd_unifrac_single_pair(tree, ids', sample_1, sample_2)
    /\ steps' = steps \o <<"assign_ids", "postorder">>
    /\ pc' = "select"
    /\ UNCHANGED <<args, tree_arg, table_arg, tree, table, idx, otu_ids,
                   u_counts, v_counts, sample_1, sample_2, max_change_node_id,
                   profile, all_results, error>>

\* Lines 161-173: the selection loop and tree.find_by_id.  The name
\* max_change_node_id is unbound when the loop assigned nothing to it.
calculate_hotspot_select ==
    /\ pc = "select"
    /\ LET id_ == select_hotspot(emd.differential_abundance, emd.den) IN
       IF id_ = Unbound
       THEN /\ pc' = "raised"
            /\ error' = Raise("UnboundLocalError", "max_change_node_id", "")
            /\ UNCHANGED max_change_node_id
       ELSE /\ pc' = "profile"
            /\ error' = error
            /\ max_change_node_id' = id_
    /\ UNCHANGED <<args, tree_arg, table_arg, tree, table, idx, otu_ids,
                   u_counts, v_counts, sample_1, sample_2, ids, emd, profile,
                   all_results, steps>>

\* hotspot, lines 133-134, and the store of line 75 when hotspot_pairs
\* made the call.
hotspot_profile ==
    /\ pc = "profile"
    /\ profile' = _profile_tree_node(tree, max_change_node_id)
    /\ steps' = Append(steps, "get_max_distance")
    /\ IF entry = "hotspot_pairs"
       THEN /\ all_results' = Append(all_results, <<pairs[idx], profile'>>)
            /\ idx' = idx + 1
            /\ pc' = "pairs_loop"
       ELSE /\ pc' = "returned"
            /\ UNCHANGED <<all_results, idx>>
    /\ UNCHANGED <<args, tree_arg, table_arg, tree, table, otu_ids, u_counts,
                   v_counts, sample_1, sample_2, ids, emd, max_change_node_id,
                   error>>

(***************************************************************************)
(* _emd_unifrac_single_pair called on its own, as the tests call it: any   *)
(* tree with ids, and masses given as they are (denominator 1).            *)
(***************************************************************************)
emd_single_pair ==
    /\ pc = "start"
    /\ entry = "_emd_unifrac_single_pair"
    /\ \E t \in AllTrees : \E names \in NameLists(t) :
       \E u \in Vectors(Len(names), MaxTotal) :
       \E v \in Vectors(Len(names), MaxTotal) :
           /\ tree' = t
           /\ ids' = find_ids(t, names)
           /\ sample_1' = [num |-> u, den |-> 1]
           /\ sample_2' = [num |-> v, den |-> 1]
           /\ emd' = _emd_unifrac_single_pair(t, ids', sample_1', sample_2')
    /\ steps' = Append(steps, "postorder")
    /\ pc' = "returned"
    /\ UNCHANGED <<args, tree_arg, table_arg, table, idx, otu_ids, u_counts,
                   v_counts, max_change_node_id, profile, all_results, error>>

Next ==
    \/ hotspot_pairs
    \/ pairs_loop
    \/ hotspot
    \/ calculate_hotspot_adjust
    \/ calculate_hotspot_emd
    \/ calculate_hotspot_select
    \/ hotspot_profile
    \/ emd_single_pair

Spec == Init /\ [][Next]_vars

(***************************************************************************)
(* Properties.                                                             *)
(***************************************************************************)
\* emd holds the result of _emd_unifrac_single_pair for tree, ids, sample_1
\* and sample_2.
EmdRan ==
    \/ pc \in {"select", "profile"}
    \/ pc = "returned" /\ entry = "_emd_unifrac_single_pair"
    \/ pc = "returned" /\ entry = "hotspot"

\* sample_1 and sample_2 are vectors of real numbers.
RealMasses == sample_1.den # NaN /\ sample_2.den # NaN

\* sample_1[k] - sample_2[k], as a numerator over sample_1.den * sample_2.den.
SeedDifference(k) ==
    sample_1.num[k] * sample_2.den - sample_2.num[k] * sample_1.den

\* The net mass of the seeded ids located in the subtree rooted at n.
Imbalance(n) ==
    LET below == {k \in 1 .. Len(ids) : InSubtree(tree, ids[k], n)}
    IN SetSum([k \in below |-> SeedDifference(k)], below)

Items == emd.differential_abundance
Keys(items) == {items[k][1] : k \in 1 .. Len(items)}
ValueSum(items, S) == SetSum([k \in S |-> items[k][2]], S)

\* C1: the distance returned by _emd_unifrac_single_pair is the sum, over
\* the non-root nodes n, of branch_length(n) * abs(net seeded mass in the
\* subtree rooted at n), recomputed from the seeded masses.
C1_DistanceIsSumOfEdgeImbalances ==
    (EmdRan /\ RealMasses) =>
        /\ emd.den = sample_1.den * sample_2.den
        /\ emd.distance =
              SetSum([n \in NonRoot(tree) |-> tree.length[n] * abs(Imbalance(n))],
                     NonRoot(tree))

\* The call was made with a seeded internal node whose mass and the mass of
\* a tip below it cancel in part, and the distance is not zero.
C1_Witness ==
    /\ pc = "returned"
    /\ entry = "_emd_unifrac_single_pair"
    /\ emd.distance > 0
    /\ \E k \in 1 .. Len(ids) : \E j \in 1 .. Len(ids) :
          /\ ~IsTip(tree, ids[k])
          /\ ids[k] # Root(tree)
          /\ ids[j] # ids[k]
          /\ InSubtree(tree, ids[j], ids[k])
          /\ SeedDifference(k) > 0
          /\ SeedDifference(j) < 0
          /\ tree.length[ids[k]] > 0

\* C2: with the two sample vectors swapped, _emd_unifrac_single_pair
\* returns the same distance and a map with the same keys whose values are
\* the negated values.
C2_SwapNegates ==
    (EmdRan /\ RealMasses) =>
        LET swapped == _emd_unifrac_single_pair(tree, ids, sample_2, sample_1)
            other == swapped.differential_abundance
        IN /\ swapped.den = emd.den
           /\ swapped.distance = emd.distance
           /\ Keys(other) = Keys(Items)
           /\ Len(other) = Len(Items)
           /\ \A k \in 1 .. Len(Items) :
                 /\ other[k][1] = Items[k][1]
                 /\ other[k][2] = -Items[k][2]

\* The two vectors differ, the map has a positive and a negative value.
C2_Witness ==
    /\ EmdRan
    /\ RealMasses
    /\ emd.distance > 0
    /\ \E k \in 1 .. Len(Items) : Items[k][2] > 0
    /\ \E k \in 1 .. Len(Items) : Items[k][2] < 0

\* The normalizer ran and handed two equal vectors of real numbers on.
IdenticalNormalized ==
    /\ Len(sample_1.num) > 0
    /\ entry # "_emd_unifrac_single_pair"
    /\ RealMasses
    /\ \A k \in 1 .. Len(sample_1.num) : SeedDifference(k) = 0

\* C3: when the two normalized vectors are identical, the EMD core returns
\* distance 0 and an empty map, and hotspot selection then ends in the
\* non-exceptional NoHotspot outcome, not in an error.
C3_IdenticalYieldsNoHotspot ==
    IdenticalNormalized =>
        /\ EmdRan => (emd.distance = 0 /\ Items = <<>>)
        /\ pc # "raised"

\* Vectors the normalizer produced, as real numbers, after the EMD pass.
NormalizedEmdRan ==
    /\ pc \in {"select", "profile"}
    /\ RealMasses

PositiveSum(items) ==
    ValueSum(items, {k \in 1 .. Len(items) : items[k][2] > 0})
NegativeSum(items) ==
    ValueSum(items, {k \in 1 .. Len(items) : items[k][2] < 0})

\* C4 as stated: for any pair of vectors produced by the normalizer and any
\* tree, the positive entries of the differential-abundance map sum to the
\* negated sum of its negative entries.
C4_PositiveEqualsNegative ==
    NormalizedEmdRan => PositiveSum(Items) = -NegativeSum(Items)

\* The two normalized vectors carry the same total mass.
EqualTotalMass ==
    SeqSum(sample_1.num) * sample_2.den = SeqSum(sample_2.num) * sample_1.den

\* Every tip of the tree is at the same distance from the root.
Ultrametric(t) ==
    \A a \in TipSet(t) : \A b \in TipSet(t) :
        distance_to_root(t, a) = distance_to_root(t, b)

\* C4 amended: the sums agree for normalized vectors of equal total mass on
\* a tree whose tips are all at the same distance from the root.
C4_PositiveEqualsNegativeUltrametric ==
    (NormalizedEmdRan /\ EqualTotalMass /\ Ultrametric(tree)) =>
        PositiveSum(Items) = -NegativeSum(Items)

\* Such a pair on such a tree, with an internal node among the positive
\* entries and a tip among the negative ones.
C4_Witness ==
    /\ NormalizedEmdRan
    /\ EqualTotalMass
    /\ Ultrametric(tree)
    /\ \E k \in 1 .. Len(Items) :
          Items[k][2] > 0 /\ ~IsTip(tree, Items[k][1])
    /\ \E k \in 1 .. Len(Items) :
          Items[k][2] < 0 /\ IsTip(tree, Items[k][1])

\* A tip counted in the sample lies in the subtree rooted at n.
PresentBelow(counts, n) ==
    \E k \in 1 .. Len(ids) : counts[k] > 0 /\ InSubtree(tree, ids[k], n)

\* Classical unweighted UniFrac: the length of the branches with a present
\* tip below them in exactly one sample, over the length of those with a
\* present tip below them in at least one.
UniqueBranchLength ==
    SetSum([n \in NonRoot(tree) |->
               IF PresentBelow(u_counts, n) # PresentBelow(v_counts, n)
               THEN tree.length[n] ELSE 0],
           NonRoot(tree))
ObservedBranchLength ==
    SetSum([n \in NonRoot(tree) |->
               IF PresentBelow(u_counts, n) \/ PresentBelow(v_counts, n)
               THEN tree.length[n] ELSE 0],
           NonRoot(tree))

\* C5: for the unweighted metric the distance of the presence/absence
\* vectors, divided by the total branch length, is the classical unweighted
\* UniFrac value.  (emd.distance / emd.den is that quotient.)
C5_UnweightedIsClassical ==
    (NormalizedEmdRan /\ metric = "unweighted_unifrac"
                      /\ ObservedBranchLength > 0) =>
        emd.distance * ObservedBranchLength = UniqueBranchLength * emd.den

\* A metric was rejected: by line 62 or by line 191.
MetricRejected ==
    /\ pc = "raised"
    /\ error.msg \in {"Unsupported metric", "method not recognized"}

\* The metric check let the call through: hotspot_pairs went on to its
\* loop, or _weight_adjuster returned.
MetricAccepted ==
    \/ pc \in {"pairs_loop", "emd", "select", "profile"}
    \/ pc = "returned" /\ entry # "_emd_unifrac_single_pair"

\* C6 as stated: exactly weighted_unifrac, weighted, unweighted_unifrac and
\* unweighted are accepted; any other metric is rejected with an error that
\* includes the value.
C6_AcceptsAliases ==
    LET recognized == {"weighted_unifrac", "weighted",
                       "unweighted_unifrac", "unweighted"}
    IN /\ MetricRejected => (metric \notin recognized /\ error.value = metric)
       /\ MetricAccepted => metric \in recognized

\* C6 amended: exactly weighted_unifrac and unweighted_unifrac are accepted;
\* any other metric, weighted and unweighted included, is rejected with an
\* error that includes the value.
C6_AcceptsExactlyTwo ==
    LET recognized == {"weighted_unifrac", "unweighted_unifrac"}
    IN /\ MetricRejected => (metric \notin recognized /\ error.value = metric)
       /\ MetricAccepted => metric \in recognized

\* hotspot rejected the alias "weighted", naming it.
C6_Witness ==
    /\ MetricRejected
    /\ entry = "hotspot"
    /\ metric = "weighted"
    /\ error.value = "weighted"

\* The call ended in one of the validation failures.
ValidationFailure ==
    /\ pc = "raised"
    /\ error.exc \in {"ValueError", "MissingNodeError"}

\* C7: every validation failure is raised before any tree traversal has
\* begun and, in hotspot_pairs, before any pair has been processed.
C7_ValidationBeforeTraversal ==
    ValidationFailure => (steps = <<>> /\ idx = 1 /\ all_results = <<>>)

\* C8: weighted normalization fails when the sum of either count vector is
\* zero; it does not return a normalized vector.
C8_ZeroSumFails ==
    (metric = "weighted_unifrac" /\ entry # "_emd_unifrac_single_pair"
        /\ Len(u_counts) > 0
        /\ (SeqSum(u_counts) = 0 \/ SeqSum(v_counts) = 0)) =>
        pc \notin {"emd", "select", "profile", "returned"}

ProfileFields ==
    {"distance_to_root", "clade_width", "maximally_divergent_tips",
     "node_address"}

\* hotspot has returned a profile, or hotspot_pairs has stored one.
ProfileMade ==
    \/ pc = "returned" /\ entry = "hotspot"
    \/ /\ entry = "hotspot_pairs"
       /\ pc \in {"pairs_loop", "returned"}
       /\ Len(all_results) > 0

\* The signed entry of the map for a node.
EntryOf(items, node) ==
    LET k == CHOOSE j \in 1 .. Len(items) : items[j][1] = node
    IN items[k][2]

\* C9 as stated: the profile holds, besides the four fields of
\* _profile_tree_node, the field differential_abundance with the signed
\* entry of the selected node.
C9_ProfileHasDifferentialAbundance ==
    ProfileMade =>
        /\ DOMAIN profile = ProfileFields \cup {"differential_abundance"}
        /\ profile.differential_abundance = EntryOf(Items, max_change_node_id)

\* C9 amended: the profile holds exactly the four fields, computed for the
\* selected node, and no differential_abundance.
C9_ProfileHasFourFields ==
    ProfileMade =>
        /\ DOMAIN profile = ProfileFields
        /\ profile.node_address = max_change_node_id
        /\ profile.distance_to_root = distance_to_root(tree, max_change_node_id)
        /\ \A k \in 1 .. Len(all_results) :
              DOMAIN all_results[k][2] = ProfileFields
        /\ entry = "hotspot_pairs" =>
              all_results[Len(all_results)][2] = profile

\* hotspot_pairs has returned a mapping with the profile of an internal
\* node for its pair.
C9_Witness ==
    /\ pc = "returned"
    /\ entry = "hotspot_pairs"
    /\ Len(all_results) = 1
    /\ all_results[1][1] = <<"A", "B">>
    /\ ~IsTip(tree, all_results[1][2].node_address)
    /\ all_results[1][2].distance_to_root > 0

\* C10: for a non-empty differential-abundance map the selection loop
\* returns an id of maximal absolute value, the first such in the order the
\* postorder pass inserted the entries.
C10_FirstMaximalEntry ==
    /\ (pc = "profile" /\ RealMasses) =>
          \E k \in 1 .. Len(Items) :
              /\ Items[k][1] = max_change_node_id
              /\ \A j \in 1 .. Len(Items) :
                    /\ abs(Items[j][2]) <= abs(Items[k][2])
                    /\ j < k => abs(Items[j][2]) < abs(Items[k][2])
                    /\ j < k => Items[j][1] < Items[k][1]
    /\ (pc = "raised" /\ error.exc = "UnboundLocalError" /\ RealMasses) =>
          Items = <<>>

\* Two entries share the maximal absolute value and the first was selected;
\* it is neither the first nor the last entry of the map.
C10_Witness ==
    /\ pc = "profile"
    /\ RealMasses
    /\ Len(Items) >= 3
    /\ Items[1][1] # max_change_node_id
    /\ Items[Len(Items)][1] # max_change_node_id
    /\ \E j \in 1 .. Len(Items) :
          /\ Items[j][1] > max_change_node_id
          /\ abs(Items[j][2]) = abs(EntryOf(Items, max_change_node_id))

\* C11: after the pass over the non-root nodes, a non-root node n is a key
\* of the differential-abundance map exactly when the net seeded mass in
\* the subtree rooted at n is not zero, the value of each key n is
\* branch_length(n) times that net mass, and the root is never a key.
C11_KeysAreNonzeroImbalances ==
    (EmdRan /\ RealMasses) =>
        /\ \A n \in NonRoot(tree) : (n \in Keys(Items)) <=> (Imbalance(n) # 0)
        /\ \A k \in 1 .. Len(Items) :
              Items[k][2] = tree.length[Items[k][1]] * Imbalance(Items[k][1])
        /\ \A j \in 1 .. Len(Items) : \A k \in 1 .. Len(Items) :
              Items[j][1] = Items[k][1] => j = k
        /\ Root(tree) \notin Keys(Items)

\* An internal node below the root is no key because the masses of the
\* tips below it cancel, while one of those tips is a key with a non-zero
\* value; the root itself was seeded with a non-zero mass.
C11_Witness ==
    /\ pc = "returned"
    /\ entry = "_emd_unifrac_single_pair"
    /\ \E n \in NonRoot(tree) : \E c \in TipSet(tree) :
          /\ ~IsTip(tree, n)
          /\ n \notin Keys(Items)
          /\ InSubtree(tree, c, n)
          /\ c \in Keys(Items)
          /\ EntryOf(Items, c) # 0
    /\ \E k \in 1 .. Len(ids) : ids[k] = Root(tree) /\ SeedDifference(k) # 0

\* C12: for every pair of vectors the normalizer produced, under either
\* supported method, once the pass over the non-root nodes is done the
\* partial-sum accumulator holds exactly zero for the root and holds no
\* entry for any other node.
C12_RootAccumulatorIsZero ==
    (NormalizedEmdRan /\ metric \in available_metrics) =>
        /\ dict_get(emd.partial_sums, Root(tree), 0) = 0
        /\ DOMAIN emd.partial_sums \subseteq {Root(tree)}

====
